---- MODULE Spec2Model ----
(***************************************************************************)
(* Brute-force dense vector search core of faiss/utils/distances.cpp:      *)
(* result handlers (top-k heap, radius filter), the four exhaustive        *)
(* kernels ({IP, L2sqr} x {direct loop, GEMM tiles}), the driver gate and  *)
(* the by-index variants.  Floats are modelled by integers (exact          *)
(* arithmetic); indices are 0-based as in the source, sequences 1-based.   *)
(***************************************************************************)
EXTENDS Integers, Sequences, FiniteSets, TLC

(* ------------------------------ bounds -------------------------------- *)
MaxNx == 2
MaxNy == 3
MaxK == 2
MaxThreads == 2

(* ------------------------- input value domains ------------------------ *)
\* query i of a batch is XQ[i mod 3]; a database is a sequence of distinct
\* vectors of Vy.  Both give rows with ties and rows of distinct distances.
XQ == <<<<1, 1>>, <<0, 0>>, <<0, 1>>>>
Vy == {<<0, 0>>, <<1, 0>>, <<1, -2>>, <<0, 1>>}
Radii == {0, 2}
BlockSizes == {1, 2}

Range(s) == {s[p] : p \in DOMAIN s}

\* the sequences of at most n distinct elements of S
RECURSIVE SeqsUpTo(_, _)
SeqsUpTo(S, n) ==
    IF n = 0 THEN {<<>>}
    ELSE LET P == SeqsUpTo(S, n - 1)
         IN P \cup {Append(s, e) : s \in {q \in P : Len(q) = n - 1}, e \in S}

Databases(n) == {s \in SeqsUpTo(Vy, n) : Cardinality(Range(s)) = Len(s)}
Queries(n) == {[i \in 1..m |-> XQ[((i - 1) % Len(XQ)) + 1]] : m \in 0..n}
Min(a, b) == IF a < b THEN a ELSE b

(* ---------------------------- scalar kernels -------------------------- *)
RECURSIVE SumTo(_, _)
SumTo(f, n) == IF n = 0 THEN 0 ELSE f[n] + SumTo(f, n - 1)

fvec_inner_product(a, b) == SumTo([c \in DOMAIN a |-> a[c] * b[c]], Len(a))
fvec_L2sqr(a, b) ==
    SumTo([c \in DOMAIN a |-> (a[c] - b[c]) * (a[c] - b[c])], Len(a))
fvec_norm_L2sqr(a) == SumTo([c \in DOMAIN a |-> a[c] * a[c]], Len(a))

fvec_norms_L2sqr(xs) == [p \in DOMAIN xs |-> fvec_norm_L2sqr(xs[p])]

(* -------------------- comparators and heap primitives ----------------- *)
FLT_MAX == 99

\* CMax: max-heap, keeps the smallest values (L2sqr); CMin: min-heap (IP)
cmp(C, a, b) == IF C = "CMax" THEN a > b ELSE a < b
neutral(C) == IF C = "CMax" THEN FLT_MAX ELSE -FLT_MAX

\* a heap is a record [val, ids] of two sequences of length k
\* called without input values (k0 = 0): fills the k entries with sentinels
heap_heapify(C, k) ==
    [val |-> [p \in 1..k |-> neutral(C)], ids |-> [p \in 1..k |-> -1]]

HMove(h, to, from) ==
    [val |-> [h.val EXCEPT ![to] = h.val[from]],
     ids |-> [h.ids EXCEPT ![to] = h.ids[from]]]

RECURSIVE heap_pop_loop(_, _, _, _, _)
heap_pop_loop(C, k, h, val, i) ==
    LET i1 == 2 * i
        i2 == i1 + 1
    IN  IF i1 > k THEN <<h, i>>
        ELSE IF i2 = k + 1 \/ cmp(C, h.val[i1], h.val[i2])
             THEN IF cmp(C, val, h.val[i1]) THEN <<h, i>>
                  ELSE heap_pop_loop(C, k, HMove(h, i, i1), val, i1)
             ELSE IF cmp(C, val, h.val[i2]) THEN <<h, i>>
                  ELSE heap_pop_loop(C, k, HMove(h, i, i2), val, i2)

heap_pop(C, k, h) ==
    LET r == heap_pop_loop(C, k, h, h.val[k], 1)
    IN  [val |-> [r[1].val EXCEPT ![r[2]] = h.val[k]],
         ids |-> [r[1].ids EXCEPT ![r[2]] = h.ids[k]]]

RECURSIVE heap_push_loop(_, _, _, _)
heap_push_loop(C, h, val, i) ==
    IF i > 1 /\ cmp(C, val, h.val[i \div 2])
    THEN heap_push_loop(C, HMove(h, i, i \div 2), val, i \div 2)
    ELSE <<h, i>>

heap_push(C, k, h, val, id) ==
    LET r == heap_push_loop(C, h, val, k)
    IN  [val |-> [r[1].val EXCEPT ![r[2]] = val],
         ids |-> [r[1].ids EXCEPT ![r[2]] = id]]

\* pops the k elements worst first and stores them from the back, drops the
\* sentinels (id -1), moves the kept elements to the front, pads with sentinels
RECURSIVE heap_reorder_loop(_, _, _, _, _)
heap_reorder_loop(C, k, h, i, ii) ==
    IF i = k THEN <<h, ii>>
    ELSE LET val == h.val[1]
             id == h.ids[1]
             q == heap_pop(C, k - i, h)
             s == [val |-> [q.val EXCEPT ![k - ii] = val],
                   ids |-> [q.ids EXCEPT ![k - ii] = id]]
         IN  heap_reorder_loop(C, k, s, i + 1, IF id # -1 THEN ii + 1 ELSE ii)

heap_reorder(C, k, h) ==
    LET r == heap_reorder_loop(C, k, h, 0, 0)
        s == r[1]
        ii == r[2]
    IN  [val |-> [p \in 1..k |-> IF p <= ii THEN s.val[k - ii + p] ELSE neutral(C)],
         ids |-> [p \in 1..k |-> IF p <= ii THEN s.ids[k - ii + p] ELSE -1]]

(* ------------------------------- state -------------------------------- *)
VARIABLES
    op,              \* "knn" | "range": which driver entry point was called
    metric,          \* "L2" | "IP"
    x, y,            \* query batch and database: sequences of vectors
    k,               \* ha->k
    radius,
    threshold,       \* distance_compute_blas_threshold
    bs_x, bs_y,      \* distance_compute_blas_query_bs / _database_bs
    nthreads,        \* omp_get_max_threads()
    hint,            \* InterruptCallback::get_period_hint(ny * d)
    heap_dis_tab,    \* ha->val, flat, slot i at [i*k, (i+1)*k)
    heap_ids_tab,    \* ha->ids
    tab0,            \* the caller's buffers as they were at the call
    res,             \* caller's RangeSearchResult: query -> sequence of <<dis, id>>
    pc,
    i0, i1, j0,
    workers,         \* per omp thread: its SingleResultHandler and loop position
    todo,            \* iterations of the omp for not yet started
    partial_results, \* RangeSearchResultHandler::partial_results
    j0s,
    pr,
    interrupted,     \* the flag InterruptCallback::check() tests
    intr_at,         \* number of check() calls made before the flag was raised
    nchecks,         \* calls of InterruptCallback::check()
    ntiles,          \* outer query tiles fully processed
    ngemm,           \* calls of sgemm_
    began, ended,    \* per query: begin()/begin_multiple and end()/end_multiple
    saved,           \* outputs of an earlier call on the same inputs, if any
    fn,              \* which function of the "subset of distances" family runs
    ids, npos,       \* by_idx: ids[q * npos + p] names a database row (npos: their ny)
    ix, iy,          \* pairwise_indexed_*: the pairs
    nr1, nr2,        \* inner_product_to_L2sqr: the norms
    dis_out, dis0,   \* the output array (ip / dis) and its content at the call
    left,            \* iterations of the omp parallel for not yet run
    reads            \* output entries for which a database row was read

inputs == <<op, metric, x, y, k, radius, threshold, bs_x, bs_y, nthreads, hint, tab0>>
outputs == <<heap_dis_tab, heap_ids_tab, res>>
registry == <<partial_results, j0s, pr>>
ghost == <<nchecks, ntiles, ngemm, began, ended>>
kernel == <<pc, i0, i1, j0, workers, todo, registry, interrupted, intr_at, ghost, saved>>
aux == <<fn, ids, npos, ix, iy, nr1, nr2, dis_out, dis0, left, reads>>
vars == <<inputs, outputs, kernel, aux>>

nx == Len(x)
ny == Len(y)
\* handler polarity chosen by the driver
CPol == IF metric = "L2" THEN "CMax" ELSE "CMin"

Slot(tab, i) == SubSeq(tab, i * k + 1, (i + 1) * k)
PutSlot(tab, i, s) ==
    [p \in DOMAIN tab |-> IF p > i * k /\ p <= (i + 1) * k THEN s[p - i * k] ELSE tab[p]]
HeapAt(dis_tab, ids_tab, i) == [val |-> Slot(dis_tab, i), ids |-> Slot(ids_tab, i)]

\* distance of query i to database row j as the scalar kernels compute it
Dist(m, i, j) ==
    IF m = "L2" THEN fvec_L2sqr(x[i + 1], y[j + 1])
    ELSE fvec_inner_product(x[i + 1], y[j + 1])

(* --------------------------- HeapResultHandler ------------------------ *)
\* as Heap_add_result, but a candidate equal to the root is admitted too
Heap_add_result_ties(C, h, dis, idx) ==
    IF ~cmp(C, dis, h.val[1])
    THEN heap_push(C, k, heap_pop(C, k, h), dis, idx)
    ELSE h

\* SingleResultHandler::add_result on the heap of the current query
Heap_add_result(C, h, dis, idx) ==
    IF cmp(C, h.val[1], dis)
    THEN heap_push(C, k, heap_pop(C, k, h), dis, idx)
    ELSE h

\* as Heap_add_row, but the id pushed is the offset in the tile buffer
RECURSIVE Heap_add_row_offset(_, _, _, _, _, _, _)
Heap_add_row_offset(C, h, thresh, dis_tab, p, j, j1) ==
    IF j >= j1 THEN <<h, p>>
    ELSE IF cmp(C, thresh, dis_tab[p])
         THEN LET h2 == heap_push(C, k, heap_pop(C, k, h), dis_tab[p], p - 1)
              IN  Heap_add_row_offset(C, h2, h2.val[1], dis_tab, p + 1, j + 1, j1)
         ELSE Heap_add_row_offset(C, h, thresh, dis_tab, p + 1, j + 1, j1)

\* inner loop of add_results: one row of the tile, read through the running
\* pointer p; the id pushed is the absolute column j
RECURSIVE Heap_add_row(_, _, _, _, _, _, _)
Heap_add_row(C, h, thresh, dis_tab, p, j, j1) ==
    IF j >= j1 THEN <<h, p>>
    ELSE IF cmp(C, thresh, dis_tab[p])
         THEN LET h2 == heap_push(C, k, heap_pop(C, k, h), dis_tab[p], j)
              IN  Heap_add_row(C, h2, h2.val[1], dis_tab, p + 1, j + 1, j1)
         ELSE Heap_add_row(C, h, thresh, dis_tab, p + 1, j + 1, j1)

\* add_results(j0, j1, dis_tab) for the open range [a, b): returns the tables
RECURSIVE Heap_add_results(_, _, _, _, _, _, _, _)
Heap_add_results(C, tabs, i, b, ja, jb, dis_tab, p) ==
    IF i >= b THEN tabs
    ELSE LET h == HeapAt(tabs[1], tabs[2], i)
             r == Heap_add_row(C, h, h.val[1], dis_tab, p, ja, jb)
         IN  Heap_add_results(C, <<PutSlot(tabs[1], i, r[1].val),
                                   PutSlot(tabs[2], i, r[1].ids)>>,
                              i + 1, b, ja, jb, dis_tab, r[2])

\* begin_multiple(a, b): heapifies the slots of queries i .. b-1
RECURSIVE Heap_begin_multiple(_, _, _, _)
Heap_begin_multiple(C, tabs, i, b) ==
    IF i >= b THEN tabs
    ELSE LET h == heap_heapify(C, k)
         IN  Heap_begin_multiple(C, <<PutSlot(tabs[1], i, h.val),
                                      PutSlot(tabs[2], i, h.ids)>>, i + 1, b)

\* end_multiple(): reorders the slots of queries i .. b-1
RECURSIVE Heap_end_multiple(_, _, _, _)
Heap_end_multiple(C, tabs, i, b) ==
    IF i >= b THEN tabs
    ELSE LET h == heap_reorder(C, k, HeapAt(tabs[1], tabs[2], i))
         IN  Heap_end_multiple(C, <<PutSlot(tabs[1], i, h.val),
                                    PutSlot(tabs[2], i, h.ids)>>, i + 1, b)

(* ------------------------ RangeSearchResultHandler -------------------- *)
\* a RangeSearchPartialResult is a sequence of RangeQueryResult records
\* [qno, ents]; new_result appends one, qr->add appends to the newest
new_result(pres, i) == Append(pres, [qno |-> i, ents |-> <<>>])
qr_add(pres, dis, idx) ==
    [pres EXCEPT ![Len(pres)].ents = Append(@, <<dis, idx>>)]

\* as Range_add_result, but a candidate equal to the radius is kept
Range_add_result_closed(C, rad, pres, dis, idx) ==
    IF ~cmp(C, dis, rad) THEN qr_add(pres, dis, idx) ELSE pres

\* SingleResultHandler::add_result
Range_add_result(C, rad, pres, dis, idx) ==
    IF cmp(C, rad, dis) THEN qr_add(pres, dis, idx) ELSE pres

\* as Range_find_shard without the rewind of the cursor at j0 = 0
Range_find_shard_no_rewind(prs, js, cur, ja) ==
    IF cur < Len(js) /\ ja = js[cur + 1]
    THEN <<prs, js, cur + 1, cur + 1>>
    ELSE <<Append(prs, <<>>), Append(js, ja), Len(prs) + 1, Len(prs) + 1>>

\* which shard add_results(j0, ...) records into: <<partial_results, j0s, pr, index>>
Range_find_shard(prs, js, cur, ja) ==
    IF cur < Len(js) /\ ja = js[cur + 1]
    THEN <<prs, js, cur + 1, cur + 1>>
    ELSE IF ja = 0 /\ Len(js) > 0
         THEN <<prs, js, 1, 1>>
         ELSE <<Append(prs, <<>>), Append(js, ja), Len(prs) + 1, Len(prs) + 1>>

RECURSIVE Range_add_line(_, _, _, _, _, _, _)
Range_add_line(C, rad, pres, dis_tab, p, j, j1) ==
    IF j >= j1 THEN pres
    ELSE Range_add_line(C, rad,
                        IF cmp(C, rad, dis_tab[p]) THEN qr_add(pres, dis_tab[p], j)
                        ELSE pres,
                        dis_tab, p + 1, j + 1, j1)

\* as Range_add_rows, but every query reads the first row of the tile
RECURSIVE Range_add_rows_first(_, _, _, _, _, _, _, _)
Range_add_rows_first(C, rad, pres, i, a, b, ja_jb, dis_tab) ==
    IF i >= b THEN pres
    ELSE Range_add_rows_first(C, rad,
            Range_add_line(C, rad, new_result(pres, i), dis_tab, 1, ja_jb[1], ja_jb[2]),
            i + 1, a, b, ja_jb, dis_tab)

\* the loop over the queries of the open range: row i starts at (i-i0)*(j1-j0)
RECURSIVE Range_add_rows(_, _, _, _, _, _, _, _)
Range_add_rows(C, rad, pres, i, a, b, ja_jb, dis_tab) ==
    IF i >= b THEN pres
    ELSE Range_add_rows(C, rad,
            Range_add_line(C, rad, new_result(pres, i), dis_tab,
                           (i - a) * (ja_jb[2] - ja_jb[1]) + 1, ja_jb[1], ja_jb[2]),
            i + 1, a, b, ja_jb, dis_tab)

\* add_results(j0, j1, dis_tab): <<partial_results, j0s, pr>> afterwards
Range_add_results(C, rad, reg, a, b, ja, jb, dis_tab) ==
    LET f == Range_find_shard(reg[1], reg[2], reg[3], ja)
        pres == Range_add_rows(C, rad, f[1][f[4]], a, a, b, <<ja, jb>>, dis_tab)
    IN  <<[f[1] EXCEPT ![f[4]] = pres], f[2], f[3]>>

\* RangeSearchPartialResult::finalize / merge: the recorded pairs of every
\* RangeQueryResult go to the caller's result under its query number
RECURSIVE finalize(_, _)
finalize(r, pres) ==
    IF pres = <<>> THEN r
    ELSE finalize([r EXCEPT ![Head(pres).qno] = @ \o Head(pres).ents], Tail(pres))

RECURSIVE merge(_, _)
merge(r, prs) ==
    IF prs = <<>> THEN r ELSE merge(finalize(r, Head(prs)), Tail(prs))

(* ------------------------------ the call ------------------------------ *)
distance_compute_blas_threshold == 20

\* a caller buffer that was never initialised: not sorted, no sentinel
Garbage(n) == [p \in 1..n |-> IF p % 2 = 1 THEN 3 ELSE 5]
GarbageIds(n) == [p \in 1..n |-> 7]

IdleWorker == [st |-> "idle", i |-> 0, j |-> 0, thresh |-> 0, pres |-> <<>>]

\* the state of a kernel that has not started
KernelReset ==
    /\ i0 = 0 /\ i1 = 0 /\ j0 = 0
    /\ workers = <<>> /\ todo = {}
    /\ partial_results = <<>> /\ j0s = <<>> /\ pr = 0
    /\ nchecks = 0 /\ ntiles = 0 /\ ngemm = 0
    /\ began = [q \in 0..(nx - 1) |-> 0]
    /\ ended = [q \in 0..(nx - 1) |-> 0]

\* none of the by-index functions is running
AuxIdle ==
    /\ fn = "none"
    /\ ids = <<>> /\ npos = 0 /\ ix = <<>> /\ iy = <<>> /\ nr1 = <<>> /\ nr2 = <<>>
    /\ dis_out = <<>> /\ dis0 = <<>> /\ left = {} /\ reads = {}

\* tunables that the chosen path never reads are not varied
InitCall(ops, thresholds) ==
    /\ op \in ops
    /\ metric \in {"L2", "IP"}
    /\ x \in Queries(MaxNx)
    /\ y \in Databases(MaxNy)
    /\ threshold \in thresholds
    /\ IF op = "knn" THEN k \in 1..MaxK /\ radius = 0
                     ELSE k = 0 /\ radius \in Radii
    /\ IF nx < threshold
       THEN bs_x = 1 /\ bs_y = 1 /\ nthreads \in 1..MaxThreads /\ hint = 1
       ELSE bs_x \in BlockSizes /\ bs_y \in BlockSizes /\ nthreads = 1 /\ hint = 1
    /\ heap_dis_tab = Garbage(nx * k)
    /\ heap_ids_tab = GarbageIds(nx * k)
    /\ tab0 = <<heap_dis_tab, heap_ids_tab>>
    /\ res = [q \in 0..(nx - 1) |-> <<>>]
    /\ pc = "call"
    /\ KernelReset
    /\ interrupted = FALSE /\ intr_at = 0
    /\ saved = <<>>
    /\ AuxIdle

Init == InitCall({"knn", "range"}, {0, distance_compute_blas_threshold})

\* knn_L2sqr / knn_inner_product and range_search_*: build the handler, gate
Gate ==
    /\ pc = "call"
    /\ pc' = IF nx < threshold THEN "seq" ELSE "blas_entry"
    /\ UNCHANGED <<aux, inputs, outputs, i0, i1, j0, workers, todo, registry,
                   interrupted, intr_at, ghost, saved>>

knn == op = "knn" /\ Gate
range_search == op = "range" /\ Gate

(* ----------------------------- direct path ---------------------------- *)
check_period == hint * nthreads

\* head of the loop over outer tiles: opens the parallel region, each thread
\* constructs its SingleResultHandler
exhaustive_seq_tile ==
    /\ pc = "seq" /\ i0 < nx
    /\ i1' = Min(i0 + check_period, nx)
    /\ todo' = i0..(i1' - 1)
    /\ workers' = [w \in 1..nthreads |-> IdleWorker]
    /\ pc' = "par"
    /\ UNCHANGED <<aux, inputs, outputs, i0, j0, registry, interrupted, intr_at, ghost, saved>>

\* the handler's destructor on the way out (normal return or exception)
Destroy == IF op = "range" THEN merge(res, partial_results) ELSE res

exhaustive_seq_return ==
    /\ pc = "seq" /\ i0 >= nx
    /\ pc' = "done"
    /\ res' = Destroy
    /\ UNCHANGED <<aux, inputs, heap_dis_tab, heap_ids_tab, i0, i1, j0, workers, todo,
                   registry, interrupted, intr_at, ghost, saved>>

\* as resi_begin, but the iteration stays available to the other threads
resi_begin_shared(w) ==
    /\ pc = "par" /\ workers[w].st = "idle"
    /\ \E i \in todo :
        /\ todo' = todo
        /\ began' = [began EXCEPT ![i] = @ + 1]
        /\ IF op = "knn"
           THEN LET h == heap_heapify(CPol, k)
                IN  /\ heap_dis_tab' = PutSlot(heap_dis_tab, i, h.val)
                    /\ heap_ids_tab' = PutSlot(heap_ids_tab, i, h.ids)
                    /\ workers' = [workers EXCEPT ![w] =
                          [st |-> "begun", i |-> i, j |-> 0, thresh |-> h.val[1],
                           pres |-> @.pres]]
           ELSE /\ workers' = [workers EXCEPT ![w] =
                          [st |-> "begun", i |-> i, j |-> 0, thresh |-> 0,
                           pres |-> new_result(@.pres, i)]]
                /\ UNCHANGED <<heap_dis_tab, heap_ids_tab>>
    /\ UNCHANGED <<aux, inputs, res, pc, i0, i1, j0, registry, interrupted, intr_at,
                   nchecks, ntiles, ngemm, ended, saved>>

\* a thread takes iteration i of the omp for and calls resi.begin(i)
resi_begin(w) ==
    /\ pc = "par" /\ workers[w].st = "idle"
    /\ \E i \in todo :
        /\ todo' = todo \ {i}
        /\ began' = [began EXCEPT ![i] = @ + 1]
        /\ IF op = "knn"
           THEN LET h == heap_heapify(CPol, k)
                IN  /\ heap_dis_tab' = PutSlot(heap_dis_tab, i, h.val)
                    /\ heap_ids_tab' = PutSlot(heap_ids_tab, i, h.ids)
                    /\ workers' = [workers EXCEPT ![w] =
                          [st |-> "begun", i |-> i, j |-> 0, thresh |-> h.val[1],
                           pres |-> @.pres]]
           ELSE /\ workers' = [workers EXCEPT ![w] =
                          [st |-> "begun", i |-> i, j |-> 0, thresh |-> 0,
                           pres |-> new_result(@.pres, i)]]
                /\ UNCHANGED <<heap_dis_tab, heap_ids_tab>>
    /\ UNCHANGED <<aux, inputs, res, pc, i0, i1, j0, registry, interrupted, intr_at,
                   nchecks, ntiles, ngemm, ended, saved>>

\* the loop over j of one query: scalar kernel, then resi.add_result(d, j)
RECURSIVE Heap_seq_row(_, _, _, _, _)
Heap_seq_row(C, m, h, i, j) ==
    IF j >= ny THEN h
    ELSE Heap_seq_row(C, m, Heap_add_result(C, h, Dist(m, i, j), j), i, j + 1)

RECURSIVE Range_seq_row(_, _, _, _, _)
Range_seq_row(C, m, pres, i, j) ==
    IF j >= ny THEN pres
    ELSE Range_seq_row(C, m, Range_add_result(C, radius, pres, Dist(m, i, j), j), i, j + 1)

resi_add_result(w) ==
    /\ pc = "par" /\ workers[w].st = "begun"
    /\ LET i == workers[w].i
       IN  IF op = "knn"
           THEN LET h == Heap_seq_row(CPol, metric, HeapAt(heap_dis_tab, heap_ids_tab, i), i, 0)
                IN  /\ heap_dis_tab' = PutSlot(heap_dis_tab, i, h.val)
                    /\ heap_ids_tab' = PutSlot(heap_ids_tab, i, h.ids)
                    /\ workers' = [workers EXCEPT ![w].st = "added", ![w].j = ny,
                                                 ![w].thresh = h.val[1]]
           ELSE /\ workers' = [workers EXCEPT ![w].st = "added", ![w].j = ny,
                                  ![w].pres = Range_seq_row(CPol, metric, @, i, 0)]
                /\ UNCHANGED <<heap_dis_tab, heap_ids_tab>>
    /\ UNCHANGED <<aux, inputs, res, pc, i0, i1, j0, todo, registry, interrupted, intr_at,
                   ghost, saved>>

\* resi.end() after the last j
resi_end(w) ==
    /\ pc = "par" /\ workers[w].st = "added"
    /\ LET i == workers[w].i
       IN  /\ ended' = [ended EXCEPT ![i] = @ + 1]
           /\ IF op = "knn"
              THEN LET h == heap_reorder(CPol, k, HeapAt(heap_dis_tab, heap_ids_tab, i))
                   IN  /\ heap_dis_tab' = PutSlot(heap_dis_tab, i, h.val)
                       /\ heap_ids_tab' = PutSlot(heap_ids_tab, i, h.ids)
              ELSE UNCHANGED <<heap_dis_tab, heap_ids_tab>>
    /\ workers' = [workers EXCEPT ![w].st = "idle"]
    /\ UNCHANGED <<aux, inputs, res, pc, i0, i1, j0, todo, registry, interrupted, intr_at,
                   nchecks, ntiles, ngemm, began, saved>>

\* ~SingleResultHandler of every thread, in thread order
RECURSIVE FinalizeAll(_, _, _)
FinalizeAll(r, ws, w) ==
    IF w > Len(ws) THEN r ELSE FinalizeAll(finalize(r, ws[w].pres), ws, w + 1)

\* end of the parallel region: the omp for is exhausted, the handlers die
exhaustive_seq_join ==
    /\ pc = "par" /\ todo = {}
    /\ \A w \in DOMAIN workers : workers[w].st = "idle"
    /\ res' = IF op = "range" THEN FinalizeAll(res, workers, 1) ELSE res
    /\ workers' = <<>>
    /\ ntiles' = ntiles + 1
    /\ pc' = "check"
    /\ UNCHANGED <<aux, inputs, heap_dis_tab, heap_ids_tab, i0, i1, j0, todo, registry,
                   interrupted, intr_at, nchecks, ngemm, began, ended, saved>>

(* --------------------------- GEMM-tiled path -------------------------- *)
\* sgemm_("Transpose", "Not transpose", nyi, nxi, di, 1, y + j0*d, x + i0*d, 0,
\* ip_block, nyi): entry (i - a) * (jb - ja) + (j - ja) is <x_i, y_j>
sgemm(a, b, ja, jb) ==
    [p \in 1..((b - a) * (jb - ja)) |->
        fvec_inner_product(x[a + ((p - 1) \div (jb - ja)) + 1],
                           y[ja + ((p - 1) % (jb - ja)) + 1])]

\* the in-place pass of exhaustive_L2sqr_blas over the tile, with the clamp
L2sqr_from_ip(ip_block, a, ja, jb, x_norms, y_norms) ==
    [p \in DOMAIN ip_block |->
        LET i == a + ((p - 1) \div (jb - ja))
            j == ja + ((p - 1) % (jb - ja))
            dis == x_norms[i + 1] + y_norms[j + 1] - 2 * ip_block[p]
        IN  IF dis < 0 THEN 0 ELSE dis]

\* as exhaustive_blas_entry, without the early return
exhaustive_blas_entry_unguarded ==
    /\ pc = "blas_entry"
    /\ pc' = "blas"
    /\ UNCHANGED <<aux, inputs, outputs, i0, i1, j0, workers, todo,
                   registry, interrupted, intr_at, ghost, saved>>

\* "BLAS does not like empty matrices"
exhaustive_blas_entry ==
    /\ pc = "blas_entry"
    /\ IF nx = 0 \/ ny = 0
       THEN pc' = "done" /\ res' = Destroy
       ELSE pc' = "blas" /\ res' = res
    /\ UNCHANGED <<aux, inputs, heap_dis_tab, heap_ids_tab, i0, i1, j0, workers, todo,
                   registry, interrupted, intr_at, ghost, saved>>

\* head of the loop over query blocks: res.begin_multiple(i0, i1)
exhaustive_blas_begin ==
    /\ pc = "blas" /\ i0 < nx
    /\ i1' = Min(i0 + bs_x, nx)
    /\ j0' = 0
    /\ began' = [q \in DOMAIN began |-> IF q >= i0 /\ q < i1' THEN began[q] + 1 ELSE began[q]]
    /\ IF op = "knn"
       THEN LET t == Heap_begin_multiple(CPol, <<heap_dis_tab, heap_ids_tab>>, i0, i1')
            IN  heap_dis_tab' = t[1] /\ heap_ids_tab' = t[2]
       ELSE UNCHANGED <<heap_dis_tab, heap_ids_tab>>
    /\ pc' = "blas_j"
    /\ UNCHANGED <<aux, inputs, res, i0, workers, todo, registry, interrupted, intr_at,
                   nchecks, ntiles, ngemm, ended, saved>>

\* one database block: GEMM, (L2sqr: norms and clamp), res.add_results
exhaustive_blas_tile ==
    /\ pc = "blas_j" /\ j0 < ny
    /\ LET j1 == Min(j0 + bs_y, ny)
           ip_block == sgemm(i0, i1, j0, j1)
           dis_tab == IF metric = "L2"
                      THEN L2sqr_from_ip(ip_block, i0, j0, j1,
                                         fvec_norms_L2sqr(x), fvec_norms_L2sqr(y))
                      ELSE ip_block
       IN  IF op = "knn"
           THEN LET t == Heap_add_results(CPol, <<heap_dis_tab, heap_ids_tab>>,
                                          i0, i1, j0, j1, dis_tab, 1)
                IN  /\ heap_dis_tab' = t[1] /\ heap_ids_tab' = t[2]
                    /\ UNCHANGED registry
           ELSE LET r == Range_add_results(CPol, radius, registry, i0, i1, j0, j1, dis_tab)
                IN  /\ partial_results' = r[1] /\ j0s' = r[2] /\ pr' = r[3]
                    /\ UNCHANGED <<heap_dis_tab, heap_ids_tab>>
    /\ j0' = j0 + bs_y
    /\ ngemm' = ngemm + 1
    /\ UNCHANGED <<aux, inputs, res, pc, i0, i1, workers, todo, interrupted, intr_at,
                   nchecks, ntiles, began, ended, saved>>

\* after the last database block: res.end_multiple()
exhaustive_blas_end ==
    /\ pc = "blas_j" /\ j0 >= ny
    /\ ended' = [q \in DOMAIN ended |-> IF q >= i0 /\ q < i1 THEN ended[q] + 1 ELSE ended[q]]
    /\ IF op = "knn"
       THEN LET t == Heap_end_multiple(CPol, <<heap_dis_tab, heap_ids_tab>>, i0, i1)
            IN  heap_dis_tab' = t[1] /\ heap_ids_tab' = t[2]
       ELSE UNCHANGED <<heap_dis_tab, heap_ids_tab>>
    /\ ntiles' = ntiles + 1
    /\ pc' = "check"
    /\ UNCHANGED <<aux, inputs, res, i0, i1, j0, workers, todo, registry, interrupted,
                   intr_at, nchecks, ngemm, began, saved>>

exhaustive_blas_return ==
    /\ pc = "blas" /\ i0 >= nx
    /\ pc' = "done"
    /\ res' = Destroy
    /\ UNCHANGED <<aux, inputs, heap_dis_tab, heap_ids_tab, i0, i1, j0, workers, todo,
                   registry, interrupted, intr_at, ghost, saved>>

(* ----------------------------- cancellation --------------------------- *)
\* as check, but the flag is not acted upon
check_ignored ==
    /\ pc = "check"
    /\ nchecks' = nchecks + 1
    /\ IF nx < threshold
       THEN pc' = "seq" /\ i0' = i0 + check_period
       ELSE pc' = "blas" /\ i0' = i0 + bs_x
    /\ UNCHANGED <<aux, inputs, outputs, i1, j0, workers, todo, registry,
                   interrupted, intr_at, ntiles, ngemm, began, ended, saved>>

\* InterruptCallback::check() after a tile: throws if the flag is up (the
\* handler is destroyed by the unwinding), else the loop steps to the next tile
check ==
    /\ pc = "check"
    /\ nchecks' = nchecks + 1
    /\ IF interrupted
       THEN pc' = "aborted" /\ res' = Destroy /\ i0' = i0
       ELSE /\ res' = res
            /\ IF nx < threshold
               THEN pc' = "seq" /\ i0' = i0 + check_period
               ELSE pc' = "blas" /\ i0' = i0 + bs_x
    /\ UNCHANGED <<aux, inputs, heap_dis_tab, heap_ids_tab, i1, j0, workers, todo, registry,
                   interrupted, intr_at, ntiles, ngemm, began, ended, saved>>

\* the environment raises the flag.  check() is its only reader, so raising it
\* anywhere inside a tile is the same as raising it right before that tile's check()
Interrupt ==
    /\ pc = "check"
    /\ ~interrupted
    /\ interrupted' = TRUE
    /\ intr_at' = nchecks
    /\ UNCHANGED <<aux, inputs, outputs, pc, i0, i1, j0, workers, todo, registry, ghost, saved>>

Direct ==
    \/ exhaustive_seq_tile
    \/ \E w \in DOMAIN workers : resi_begin(w)
    \/ \E w \in DOMAIN workers : resi_add_result(w)
    \/ \E w \in DOMAIN workers : resi_end(w)
    \/ exhaustive_seq_join
    \/ exhaustive_seq_return

Blas ==
    \/ exhaustive_blas_entry
    \/ exhaustive_blas_begin
    \/ exhaustive_blas_tile
    \/ exhaustive_blas_end
    \/ exhaustive_blas_return

Next == knn \/ range_search \/ Direct \/ Blas \/ check \/ Interrupt

Spec == Init /\ [][Next]_vars

(* ------------------- the same call through both paths ----------------- *)
\* the caller keeps the outputs of a finished direct-path call, restores its
\* buffers, lowers the threshold to force the GEMM path and calls again
rerun_on_blas ==
    /\ pc = "done" /\ saved = <<>>
    /\ saved' = <<heap_dis_tab, heap_ids_tab>>
    /\ heap_dis_tab' = tab0[1] /\ heap_ids_tab' = tab0[2]
    /\ res' = [q \in 0..(nx - 1) |-> <<>>]
    /\ threshold' = 0
    /\ bs_x' \in BlockSizes /\ bs_y' \in BlockSizes
    /\ pc' = "call"
    /\ i0' = 0 /\ i1' = 0 /\ j0' = 0
    /\ workers' = <<>> /\ todo' = {}
    /\ nchecks' = 0 /\ ntiles' = 0 /\ ngemm' = 0
    /\ began' = [q \in 0..(nx - 1) |-> 0]
    /\ ended' = [q \in 0..(nx - 1) |-> 0]
    /\ UNCHANGED <<aux, op, metric, x, y, k, radius, nthreads, hint, tab0, registry,
                   interrupted, intr_at>>

InitEquiv == InitCall({"knn"}, {distance_compute_blas_threshold})
NextEquiv == knn \/ Direct \/ Blas \/ check \/ rerun_on_blas
SpecEquiv == InitEquiv /\ [][NextEquiv]_vars

(* ------------- the direct path, one add_result call per step ---------- *)
\* one iteration of the loop over j: scalar kernel, then resi.add_result(d, j);
\* the last one leaves the loop
resi_add_one(w) ==
    /\ pc = "par" /\ workers[w].st = "begun" /\ workers[w].j < ny
    /\ LET i == workers[w].i
           j == workers[w].j
           dis == Dist(metric, i, j)
       IN  IF op = "knn"
           THEN LET h0 == HeapAt(heap_dis_tab, heap_ids_tab, i)
                    h == Heap_add_result(CPol, h0, dis, j)
                IN  /\ heap_dis_tab' = PutSlot(heap_dis_tab, i, h.val)
                    /\ heap_ids_tab' = PutSlot(heap_ids_tab, i, h.ids)
                    /\ workers' = [workers EXCEPT ![w].j = j + 1,
                          ![w].st = IF j + 1 < ny THEN "begun" ELSE "added",
                          ![w].thresh = IF cmp(CPol, h0.val[1], dis) THEN h.val[1] ELSE @]
           ELSE /\ workers' = [workers EXCEPT ![w].j = j + 1,
                          ![w].st = IF j + 1 < ny THEN "begun" ELSE "added",
                          ![w].pres = Range_add_result(CPol, radius, @, dis, j)]
                /\ UNCHANGED <<heap_dis_tab, heap_ids_tab>>
    /\ UNCHANGED <<aux, inputs, res, pc, i0, i1, j0, todo, registry, interrupted, intr_at,
                   ghost, saved>>

\* the loop over j of an empty database is not entered
resi_loop_exit(w) ==
    /\ pc = "par" /\ workers[w].st = "begun" /\ workers[w].j >= ny
    /\ workers' = [workers EXCEPT ![w].st = "added"]
    /\ UNCHANGED <<aux, inputs, outputs, pc, i0, i1, j0, todo, registry, interrupted,
                   intr_at, ghost, saved>>

DirectSteps ==
    \/ exhaustive_seq_tile
    \/ \E w \in DOMAIN workers : resi_begin(w)
    \/ \E w \in DOMAIN workers : resi_add_one(w)
    \/ \E w \in DOMAIN workers : resi_loop_exit(w)
    \/ \E w \in DOMAIN workers : resi_end(w)
    \/ exhaustive_seq_join
    \/ exhaustive_seq_return

\* the databases of the calls followed add by add: the rows of Vy in one
\* cyclic order, from any starting row, cut at any length
VyCycle == <<<<0, 0>>, <<1, 0>>, <<1, -2>>, <<0, 1>>>>
Rotate(s, r) == [p \in 1..Len(s) |-> s[((p + r - 1) % Len(s)) + 1]]
CycleDatabases(n) ==
    {SubSeq(Rotate(VyCycle, r), 1, m) : r \in 0..(Len(VyCycle) - 1),
                                        m \in 0..Min(n, Len(VyCycle))}

InitHeap ==
    /\ InitCall({"knn"}, {0, distance_compute_blas_threshold})
    /\ y \in CycleDatabases(MaxNy)
NextHeap == knn \/ DirectSteps \/ Blas \/ check
SpecHeap == InitHeap /\ [][NextHeap]_vars

(* ------------------- compute a subset of distances -------------------- *)
MaxPos == 2

\* the vectors the by-index functions are run on, and their index values
XB == <<XQ[1], XQ[2]>>
YB == <<<<0, 0>>, <<1, 0>>, <<1, -2>>>>
IdxVals == -1..(Len(YB) - 1)
\* inner_product_to_L2sqr takes any dis, nr1, nr2
ConvRows == {1, 2}
ConvIp == {0, 2}
ConvNorms == {0, 1}
\* an output array the caller filled with values no distance takes
Marks(n) == [p \in 1..n |-> 50 + p]

ByIdxFns == {"fvec_inner_products_by_idx", "fvec_L2sqr_by_idx"}
PairwiseFns == {"pairwise_indexed_L2sqr", "pairwise_indexed_inner_product"}

Kernel(f, a, b) ==
    IF f \in {"fvec_L2sqr_by_idx", "pairwise_indexed_L2sqr"}
    THEN fvec_L2sqr(a, b)
    ELSE fvec_inner_product(a, b)

\* as by_idx_row without the test of the id: the entry is written (with what
\* lies before y) and a row is read
RECURSIVE by_idx_row_unguarded(_, _, _, _)
by_idx_row_unguarded(f, dr, j, i) ==
    IF i >= npos THEN dr
    ELSE LET p == j * npos + i + 1
         IN  by_idx_row_unguarded(f,
                <<[dr[1] EXCEPT ![p] = IF ids[p] < 0 THEN 0
                                       ELSE Kernel(f, x[j + 1], y[ids[p] + 1])],
                  dr[2] \cup {p - 1}>>, j, i + 1)

\* the loop over i of fvec_*_by_idx for query j, on <<output, reads>>
RECURSIVE by_idx_row(_, _, _, _)
by_idx_row(f, dr, j, i) ==
    IF i >= npos THEN dr
    ELSE LET p == j * npos + i + 1
         IN  IF ids[p] < 0
             THEN by_idx_row(f, dr, j, i + 1)
             ELSE by_idx_row(f,
                    <<[dr[1] EXCEPT ![p] = Kernel(f, x[j + 1], y[ids[p] + 1])],
                      dr[2] \cup {p - 1}>>, j, i + 1)

\* one iteration of the omp parallel for of fvec_inner_products_by_idx /
\* fvec_L2sqr_by_idx
fvec_by_idx(j) ==
    /\ fn \in ByIdxFns /\ j \in left
    /\ LET r == by_idx_row(fn, <<dis_out, reads>>, j, 0)
       IN  dis_out' = r[1] /\ reads' = r[2]
    /\ left' = left \ {j}
    /\ UNCHANGED <<inputs, outputs, kernel, fn, ids, npos, ix, iy, nr1, nr2, dis0>>

\* the body of the loop of pairwise_indexed_* for pair j, on <<output, reads>>
pairwise_pair(f, dr, j) ==
    IF ix[j + 1] >= 0 /\ iy[j + 1] >= 0
    THEN <<[dr[1] EXCEPT ![j + 1] = Kernel(f, x[ix[j + 1] + 1], y[iy[j + 1] + 1])],
           dr[2] \cup {j}>>
    ELSE dr

pairwise_indexed(j) ==
    /\ fn \in PairwiseFns /\ j \in left
    /\ LET r == pairwise_pair(fn, <<dis_out, reads>>, j)
       IN  dis_out' = r[1] /\ reads' = r[2]
    /\ left' = left \ {j}
    /\ UNCHANGED <<inputs, outputs, kernel, fn, ids, npos, ix, iy, nr1, nr2, dis0>>

\* row j of inner_product_to_L2sqr
to_L2sqr_row(d, j) ==
    LET n2 == Len(nr2)
    IN  [p \in DOMAIN d |->
            IF p > j * n2 /\ p <= (j + 1) * n2
            THEN nr1[j + 1] + nr2[p - j * n2] - 2 * d[p]
            ELSE d[p]]

inner_product_to_L2sqr(j) ==
    /\ fn = "inner_product_to_L2sqr" /\ j \in left
    /\ dis_out' = to_L2sqr_row(dis_out, j)
    /\ left' = left \ {j}
    /\ UNCHANGED <<inputs, outputs, kernel, fn, ids, npos, ix, iy, nr1, nr2, dis0, reads>>

\* the loop over j of knn_inner_products_by_idx for query i: stops at the
\* first negative id
RECURSIVE knn_ip_by_idx_loop(_, _, _)
knn_ip_by_idx_loop(h, i, j) ==
    IF j >= npos THEN h
    ELSE LET id == ids[i * npos + j + 1]
         IN  IF id < 0 THEN h
             ELSE LET ip == fvec_inner_product(x[i + 1], y[id + 1])
                  IN  knn_ip_by_idx_loop(
                        IF ip > h.val[1]
                        THEN heap_push("CMin", k, heap_pop("CMin", k, h), ip, id)
                        ELSE h,
                        i, j + 1)

\* one iteration of the omp parallel for of knn_inner_products_by_idx
knn_inner_products_by_idx(i) ==
    /\ fn = "knn_inner_products_by_idx" /\ i \in left
    /\ LET h == heap_reorder("CMin", k,
                    knn_ip_by_idx_loop(heap_heapify("CMin", k), i, 0))
       IN  /\ heap_dis_tab' = PutSlot(heap_dis_tab, i, h.val)
           /\ heap_ids_tab' = PutSlot(heap_ids_tab, i, h.ids)
    /\ left' = left \ {i}
    /\ UNCHANGED <<inputs, res, kernel, fn, ids, npos, ix, iy, nr1, nr2, dis_out, dis0, reads>>

InitAux ==
    /\ fn \in ByIdxFns \cup PairwiseFns
             \cup {"inner_product_to_L2sqr", "knn_inner_products_by_idx"}
    /\ op = "none" /\ metric = "IP"
    /\ x = XB /\ y = YB
    /\ radius = 0 /\ threshold = distance_compute_blas_threshold
    /\ bs_x = 1 /\ bs_y = 1 /\ nthreads = 1 /\ hint = 1
    /\ IF fn = "knn_inner_products_by_idx" THEN k \in 1..MaxK ELSE k = 0
    /\ heap_dis_tab = Garbage(nx * k)
    /\ heap_ids_tab = GarbageIds(nx * k)
    /\ tab0 = <<heap_dis_tab, heap_ids_tab>>
    /\ res = [q \in 0..(nx - 1) |-> <<>>]
    /\ pc = "subset"
    /\ KernelReset
    /\ interrupted = FALSE /\ intr_at = 0
    /\ saved = <<>>
    /\ IF fn \in ByIdxFns \cup {"knn_inner_products_by_idx"}
       THEN /\ npos \in 1..MaxPos
            /\ ids \in [1..(nx * npos) -> IdxVals]
            /\ ix = <<>> /\ iy = <<>> /\ nr1 = <<>> /\ nr2 = <<>>
            /\ dis0 = IF fn \in ByIdxFns THEN Marks(nx * npos) ELSE <<>>
            /\ left = 0..(nx - 1)
       ELSE IF fn \in PairwiseFns
       THEN /\ npos = 0 /\ ids = <<>> /\ nr1 = <<>> /\ nr2 = <<>>
            /\ \E n \in 1..MaxPos :
                  /\ ix \in [1..n -> -1..(nx - 1)]
                  /\ iy \in [1..n -> IdxVals]
                  /\ dis0 = Marks(n)
                  /\ left = 0..(n - 1)
       ELSE /\ npos = 0 /\ ids = <<>> /\ ix = <<>> /\ iy = <<>>
            /\ \E n1 \in ConvRows, n2 \in 1..MaxPos :
                  /\ nr1 \in [1..n1 -> ConvNorms]
                  /\ nr2 \in [1..n2 -> ConvNorms]
                  /\ dis0 \in [1..(n1 * n2) -> ConvIp]
                  /\ left = 0..(n1 - 1)
    /\ dis_out = dis0
    /\ reads = {}

NextAux ==
    \/ \E j \in left : fvec_by_idx(j)
    \/ \E j \in left : pairwise_indexed(j)
    \/ \E j \in left : inner_product_to_L2sqr(j)
    \/ \E i \in left : knn_inner_products_by_idx(i)

SpecAux == InitAux /\ [][NextAux]_vars

(* ======================================================================= *)
(*                                 claims                                  *)
(* ======================================================================= *)
Better(m, a, b) == IF m = "L2" THEN a < b ELSE a > b
OnBlas == ~(nx < threshold)
Cols == 0..(ny - 1)
RowDistinct(i) ==
    \A ja, jb \in Cols : ja # jb => Dist(metric, i, ja) # Dist(metric, i, jb)
\* the columns beaten by fewer than k others
ArgBest(i) ==
    {j \in Cols :
        Cardinality({jb \in Cols : Better(metric, Dist(metric, i, jb), Dist(metric, i, j))}) < k}

\* C1: after knn_L2sqr / knn_inner_product with ny >= k, on either path, the
\* slot of every query holds k distinct database indices, each with its own
\* distance to the query, no column left out is strictly better than a column
\* kept, and on a row of distinct distances the ids are exactly argmin_k/argmax_k
TopKCorrect ==
    (pc = "done" /\ op = "knn" /\ ny >= k) =>
        \A i \in 0..(nx - 1) :
            LET h == HeapAt(heap_dis_tab, heap_ids_tab, i)
                I == Range(h.ids)
            IN  /\ I \subseteq Cols
                /\ Cardinality(I) = k
                /\ \A p \in 1..k : h.val[p] = Dist(metric, i, h.ids[p])
                /\ \A j \in Cols \ I : \A p \in 1..k :
                        ~Better(metric, Dist(metric, i, j), h.val[p])
                /\ RowDistinct(i) => I = ArgBest(i)

\* a GEMM run over several query blocks and database tiles that ends with an
\* id from a later tile in the slot of a row of distinct distances
TopKCorrectWitness ==
    /\ pc = "done" /\ op = "knn" /\ OnBlas
    /\ ny > k /\ bs_y < ny /\ bs_x < nx
    /\ \E i \in 0..(nx - 1) :
          /\ RowDistinct(i)
          /\ \E p \in 1..k : Slot(heap_ids_tab, i)[p] >= bs_y

\* the pairs of query i that pass the handler's predicate C::cmp(radius, d)
Expected(i) ==
    {<<Dist(metric, i, j), j>> : j \in {c \in Cols : cmp(CPol, radius, Dist(metric, i, c))}}

\* C3: after range_search_L2sqr / range_search_inner_product, on either path,
\* the pairs recorded for every query are, as a multiset, exactly the pairs
\* (d(x_i, y_j), j) that pass the handler's radius predicate: none is missing,
\* none is recorded twice, none fails the predicate
RadiusComplete ==
    (pc = "done" /\ op = "range") =>
        \A i \in 0..(nx - 1) :
            /\ Range(res[i]) = Expected(i)
            /\ Len(res[i]) = Cardinality(Expected(i))

\* a GEMM run over two query blocks and several database tiles in which a
\* query of the second block has pairs from two different tiles
RadiusCompleteWitness ==
    /\ pc = "done" /\ op = "range" /\ OnBlas
    /\ bs_y < ny /\ bs_x < nx
    /\ \E i \in bs_x..(nx - 1) : \E p, q \in DOMAIN res[i] :
          res[i][p][2] < bs_y /\ res[i][q][2] >= bs_y

Recorded(i, j) == <<Dist(metric, i, j), j>> \in Range(res[i])

\* C4 as claimed: a candidate is kept iff d <= radius (L2sqr), d >= radius (IP),
\* so that a candidate at exactly the radius is in the result
RadiusBoundaryClosed ==
    (pc = "done" /\ op = "range") =>
        \A i \in 0..(nx - 1) : \A j \in Cols :
            Recorded(i, j) <=>
                IF metric = "L2" THEN Dist(metric, i, j) <= radius
                ELSE Dist(metric, i, j) >= radius

\* C4 amended: a candidate is kept iff d < radius (L2sqr), d > radius (IP); a
\* candidate at exactly the radius is not recorded.  Holds for the bucket a
\* direct-path worker has just filled and for the result of either path.
RadiusBoundaryOpen ==
    /\ (pc = "done" /\ op = "range") =>
          \A i \in 0..(nx - 1) : \A j \in Cols :
              Recorded(i, j) <=>
                  IF metric = "L2" THEN Dist(metric, i, j) < radius
                  ELSE Dist(metric, i, j) > radius
    /\ (pc = "par" /\ op = "range") =>
          \A w \in DOMAIN workers :
              workers[w].st = "added" =>
                  LET qr == workers[w].pres[Len(workers[w].pres)]
                  IN  \A j \in Cols :
                        (<<Dist(metric, qr.qno, j), j>> \in Range(qr.ents)) <=>
                            IF metric = "L2" THEN Dist(metric, qr.qno, j) < radius
                            ELSE Dist(metric, qr.qno, j) > radius

\* a finished range search in which one database row lies exactly at the
\* radius of a query and is absent while another row of that query is recorded
RadiusBoundaryWitness ==
    /\ pc = "done" /\ op = "range"
    /\ \E i \in 0..(nx - 1) : \E j, jb \in Cols :
          /\ Dist(metric, i, j) = radius /\ ~Recorded(i, j)
          /\ Recorded(i, jb)

Sorted(m, v) ==
    \A p \in 1..(Len(v) - 1) : IF m = "L2" THEN v[p] <= v[p + 1] ELSE v[p] >= v[p + 1]

\* C5: after knn_L2sqr / knn_inner_product returns normally the k values of
\* every query slot are ascending (L2sqr) or descending (IP), and every slot
\* has been opened and closed exactly once
HeapOrdering ==
    (pc = "done" /\ op = "knn") =>
        \A i \in 0..(nx - 1) :
            /\ Sorted(metric, Slot(heap_dis_tab, i))
            /\ began[i] = 1 /\ ended[i] = 1

NoPairs == [q \in 0..(nx - 1) |-> <<>>]

\* C8 as claimed: with nx = 0 or ny = 0 the call returns and the caller's heap
\* values/ids and radius result are as they were, on either path
EmptyInputNoOp ==
    (pc = "done" /\ (nx = 0 \/ ny = 0)) =>
        <<heap_dis_tab, heap_ids_tab>> = tab0 /\ res = NoPairs

\* C8 amended: with nx = 0 or ny = 0 no GEMM is issued and no pair is recorded;
\* the heap buffers are untouched when nx = 0 and on the GEMM path (which
\* returns before any slot is opened or the hook polled), while the direct
\* path with ny = 0 opens and closes every slot, leaving k sentinels in it
EmptyInputEffect ==
    (pc = "done" /\ (nx = 0 \/ ny = 0)) =>
        /\ res = NoPairs
        /\ ngemm = 0
        /\ (nx = 0 \/ OnBlas) =>
              /\ <<heap_dis_tab, heap_ids_tab>> = tab0
              /\ \A q \in 0..(nx - 1) : began[q] = 0 /\ ended[q] = 0
        /\ OnBlas => nchecks = 0
        /\ (~OnBlas /\ op = "knn") =>
              \A q \in 0..(nx - 1) :
                  HeapAt(heap_dis_tab, heap_ids_tab, q) = heap_heapify(CPol, k)

\* knn on an empty database through the direct path: the slots were rewritten
EmptyInputWitness ==
    /\ pc = "done" /\ op = "knn" /\ ny = 0 /\ nx > 0 /\ ~OnBlas
    /\ <<heap_dis_tab, heap_ids_tab>> # tab0

\* number of database tiles of one query block
NJ == (ny + bs_y - 1) \div bs_y

\* C9: check() is called once after each outer tile and never inside one; once
\* the flag is up the next check() aborts the kernel; at the abort exactly the
\* queries of the tiles processed so far have been begun and ended, the slots
\* and results of later queries are untouched, and on the GEMM path only the
\* GEMMs of the processed tiles were issued
Cancellation ==
    /\ nchecks = IF pc = "check" THEN ntiles - 1 ELSE ntiles
    /\ interrupted => pc \in {"check", "aborted"}
    /\ pc = "aborted" =>
          /\ interrupted
          /\ \A q \in 0..(nx - 1) :
                IF q < i1 THEN began[q] = 1 /\ ended[q] = 1
                ELSE /\ began[q] = 0 /\ ended[q] = 0
                     /\ res[q] = <<>>
                     /\ Slot(heap_dis_tab, q) = Slot(tab0[1], q)
                     /\ Slot(heap_ids_tab, q) = Slot(tab0[2], q)
          /\ OnBlas => ngemm = ntiles * NJ

\* an abort after the first outer tile while queries of a later tile remain
CancellationWitness ==
    pc = "aborted" /\ ntiles = 1 /\ i1 < nx /\ ny > 0

\* C2: the direct path (threshold above nx) and the GEMM path (threshold at or
\* below nx) of the same knn call leave the same ids in every query slot when
\* the distances of each row are distinct, and the same values
StrategyEquivalence ==
    (pc = "done" /\ saved # <<>>) =>
        /\ heap_dis_tab = saved[1]
        /\ (\A i \in 0..(nx - 1) : RowDistinct(i)) => heap_ids_tab = saved[2]

\* C6: inner_product_to_L2sqr leaves nr1[i] + nr2[j] - 2 * dis[i,j] clamped at
\* 0 in every entry, so that no entry is negative after the call
ToL2sqrClamped ==
    (fn = "inner_product_to_L2sqr" /\ left = {}) =>
        \A p \in DOMAIN dis_out :
            LET i == (p - 1) \div Len(nr2)
                j == (p - 1) % Len(nr2)
                v == nr1[i + 1] + nr2[j + 1] - 2 * dis0[p]
            IN  dis_out[p] = (IF v < 0 THEN 0 ELSE v) /\ dis_out[p] >= 0

\* the index pair behind output entry p (0-based) and whether it is skipped
EntrySkipped(p) ==
    IF fn \in ByIdxFns THEN ids[p + 1] < 0 ELSE ix[p + 1] < 0 \/ iy[p + 1] < 0
EntryDistance(p) ==
    IF fn \in ByIdxFns
    THEN Kernel(fn, x[(p \div npos) + 1], y[ids[p + 1] + 1])
    ELSE Kernel(fn, x[ix[p + 1] + 1], y[iy[p + 1] + 1])
EntryIteration(p) == IF fn \in ByIdxFns THEN p \div npos ELSE p

\* C7: in fvec_*_by_idx and pairwise_indexed_*, an output entry whose index
\* (either index, for a pair) is negative keeps the value it had before the
\* call and no row is read for it; every other entry of an iteration that has
\* run holds the distance of the named pair
ByIdxSkip ==
    (fn \in ByIdxFns \cup PairwiseFns) =>
        \A p \in 0..(Len(dis_out) - 1) :
            IF EntryIteration(p) \in left \/ EntrySkipped(p)
            THEN dis_out[p + 1] = dis0[p + 1] /\ p \notin reads
            ELSE dis_out[p + 1] = EntryDistance(p) /\ p \in reads

\* a finished fvec_*_by_idx call with a negative id followed, in the same row,
\* by a non-negative one whose entry was written
ByIdxSkipWitness ==
    /\ fn \in ByIdxFns /\ left = {}
    /\ \E p \in 0..(Len(dis_out) - 2) :
          /\ p \div npos = (p + 1) \div npos
          /\ ids[p + 1] < 0 /\ ids[p + 2] >= 0
          /\ dis_out[p + 1] = dis0[p + 1]
          /\ dis_out[p + 2] # dis0[p + 2]

\* the n largest values of a sequence, largest first
RECURSIVE TopDesc(_, _)
TopDesc(v, n) ==
    IF n = 0 \/ v = <<>> THEN <<>>
    ELSE LET m == CHOOSE e \in Range(v) : \A f \in Range(v) : f <= e
             q == CHOOSE c \in DOMAIN v : v[c] = m
         IN  <<m>> \o TopDesc(SubSeq(v, 1, q - 1) \o SubSeq(v, q + 1, Len(v)), n - 1)

\* the inner products of query i with the rows named at the positions from j
\* on of row i of ids, the negative entries left out
RECURSIVE IpsAt(_, _)
IpsAt(i, j) ==
    IF j >= npos THEN <<>>
    ELSE (IF ids[i * npos + j + 1] >= 0
          THEN <<fvec_inner_product(x[i + 1], y[ids[i * npos + j + 1] + 1])>>
          ELSE <<>>) \o IpsAt(i, j + 1)

\* C10: knn_inner_products_by_idx leaves in the slot of query i the top-k of
\* the inner products over every position of row i of ids whose entry is
\* non-negative, largest first (sentinels behind them when fewer than k), each
\* with the id of a row that has that inner product
KnnByIdxSubset ==
    (fn = "knn_inner_products_by_idx" /\ left = {}) =>
        \A i \in 0..(nx - 1) :
            LET keep(j) == ids[i * npos + j + 1] >= 0
                top == TopDesc(IpsAt(i, 0), k)
                h == HeapAt(heap_dis_tab, heap_ids_tab, i)
            IN  \A p \in 1..k :
                    IF p <= Len(top)
                    THEN /\ h.val[p] = top[p]
                         /\ \E j \in 0..(npos - 1) :
                               keep(j) /\ h.ids[p] = ids[i * npos + j + 1]
                         /\ h.val[p] = fvec_inner_product(x[i + 1], y[h.ids[p] + 1])
                    ELSE h.val[p] = neutral("CMin") /\ h.ids[p] = -1

\* the number of database tiles of the GEMM loops
NTilesY == (ny + bs_y - 1) \div bs_y

\* the registry between two add_results calls
RegistryOK ==
    /\ Len(partial_results) = Len(j0s)
    /\ \A t, u \in DOMAIN j0s : j0s[t] = j0s[u] => t = u
    /\ pr \in 0..Len(partial_results)
    /\ Len(partial_results) <= NTilesY
    /\ (op = "range" /\ OnBlas /\ ntiles >= 1) => Len(partial_results) = NTilesY

\* what one add_results(j0, j1, dis_tab) call of the GEMM loops does to the
\* registry
RegistryStep ==
    (op = "range" /\ pc = "blas_j" /\ ngemm' = ngemm + 1) =>
        /\ \A t \in DOMAIN partial_results : partial_results'[t] # partial_results[t] =>
              /\ j0s[t] = j0
              /\ Len(partial_results'[t]) = Len(partial_results[t]) + (i1 - i0)
              /\ SubSeq(partial_results'[t], 1, Len(partial_results[t])) = partial_results[t]
        /\ IF \E t \in DOMAIN j0s : j0s[t] = j0
           THEN /\ j0s' = j0s
                /\ Len(partial_results') = Len(partial_results)
                /\ \E t \in DOMAIN j0s :
                      j0s[t] = j0 /\ pr' = t /\ partial_results'[t] # partial_results[t]
           ELSE /\ j0s' = Append(j0s, j0)
                /\ Len(partial_results') = Len(partial_results) + 1
                /\ pr' = Len(partial_results')
                /\ Len(partial_results'[pr']) = i1 - i0

\* C11: in the GEMM loops the first add_results call with a given j0 creates a
\* new shard and every later call with that j0 records into that same shard,
\* so that j0s has no duplicate, partial_results has one shard per database
\* tile once a query block is through, and pr stays within partial_results
RegistryInvariant == [][RegistryStep /\ RegistryOK']_vars

\* a second query block has rewound the cursor at j0 = 0 and found the shard
\* of the next tile under it
RegistryWitness ==
    /\ op = "range" /\ pc = "blas_j" /\ ntiles >= 1
    /\ j0 >= 2 * bs_y /\ pr = 2
    /\ Len(partial_results) = NTilesY
    /\ \A t \in 1..2 : Len(partial_results[t]) = i1

\* the workers of the parallel region that are inside an iteration
Busy == {w \in DOMAIN workers : workers[w].st # "idle"}

\* the direct path's bookkeeping of iterations between two worker steps
SingleWriterOK ==
    (op = "knn" /\ ~OnBlas) =>
        /\ \A w, v \in Busy : w # v => workers[w].i # workers[v].i
        /\ \A i \in 0..(nx - 1) :
              /\ began[i] <= 1 /\ ended[i] <= began[i]
              /\ (began[i] = 1 /\ ended[i] = 0) <=> (\E w \in Busy : workers[w].i = i)
        /\ \A w \in Busy :
              /\ workers[w].i \in i0..(i1 - 1) /\ workers[w].i \notin todo
              /\ workers[w].st = "added" => workers[w].j = ny
              /\ workers[w].st = "begun" => (workers[w].j < ny \/ ny = 0)
        /\ pc = "done" => \A i \in 0..(nx - 1) : began[i] = 1 /\ ended[i] = 1

\* one step inside the parallel region: one worker moves, on its own handler
\* and its own slot, by one begin, one add_result or one end
SingleWriterStep ==
    (op = "knn" /\ pc = "par" /\ pc' = "par") =>
        \E w \in DOMAIN workers :
            /\ \A v \in DOMAIN workers : v # w => workers'[v] = workers[v]
            /\ \A q \in 0..(nx - 1) : q # workers'[w].i =>
                  /\ Slot(heap_dis_tab', q) = Slot(heap_dis_tab, q)
                  /\ Slot(heap_ids_tab', q) = Slot(heap_ids_tab, q)
            /\ workers[w].st = "idle" =>
                  /\ workers'[w].st = "begun" /\ workers'[w].j = 0
                  /\ workers'[w].i \in todo /\ todo' = todo \ {workers'[w].i}
            /\ workers[w].st # "idle" => workers'[w].i = workers[w].i /\ todo' = todo
            /\ (workers[w].st = "begun" /\ ny > 0) => workers'[w].j = workers[w].j + 1
            /\ workers[w].st = "added" => workers'[w].st = "idle"

\* C12: on the direct path with the heap handler, under every interleaving of
\* the workers each query i is begun, given ny add_result calls and ended by
\* one worker and once, each worker moves only its own handler, and no two
\* workers are ever inside the same query slot
SingleWriter == [][SingleWriterStep /\ SingleWriterOK']_vars

\* two workers are in the middle of the j loops of two queries at once
SingleWriterWitness ==
    /\ op = "knn" /\ pc = "par"
    /\ \E w, v \in Busy :
          /\ w # v /\ workers[w].i # workers[v].i
          /\ workers[w].st = "begun" /\ workers[w].j >= 1
          /\ workers[v].st = "begun" /\ workers[v].j >= 1

\* the (value, id) entries of a heap, and equality of two sequences as bags
Entries(h) == [p \in 1..k |-> <<h.val[p], h.ids[p]>>]
SameBag(a, b) ==
    /\ Len(a) = Len(b)
    /\ \A e \in Range(a) \cup Range(b) :
          Cardinality({p \in DOMAIN a : a[p] = e}) = Cardinality({p \in DOMAIN b : b[p] = e})

\* no entry is better than its child: the parent of entry p is entry p \div 2
HeapProperty(m, v) ==
    \A p \in 2..Len(v) : ~Better(m, v[p \div 2], v[p])

\* the values a slot must hold after the candidates j .. j1-1 of query i:
\* each one strictly better than the worst value takes its place
RECURSIVE AdmitValues(_, _, _, _)
AdmitValues(v, i, j, j1) ==
    IF j >= j1 THEN v
    ELSE LET d == Dist(metric, i, j)
             wp == CHOOSE p \in DOMAIN v : \A q \in DOMAIN v : ~Better(metric, v[p], v[q])
         IN  AdmitValues(IF Better(metric, d, v[wp]) THEN [v EXCEPT ![wp] = d] ELSE v,
                         i, j + 1, j1)

\* the slots that are open hold k entries in heap order, and a worker's
\* threshold is the root of its slot
HeapAdmissionOK ==
    /\ (pc = "par" /\ op = "knn") => \A w \in Busy :
          LET h == HeapAt(heap_dis_tab, heap_ids_tab, workers[w].i)
          IN  /\ Len(h.val) = k /\ Len(h.ids) = k
              /\ HeapProperty(metric, h.val)
              /\ workers[w].thresh = h.val[1]
    /\ (pc = "blas_j" /\ op = "knn") => \A i \in i0..(i1 - 1) :
          HeapProperty(metric, Slot(heap_dis_tab, i))

\* one add_result call of a worker, and one add_results call of the GEMM loops
HeapAdmissionStep ==
    /\ (pc = "par" /\ op = "knn") =>
          \A w \in DOMAIN workers :
              (workers[w].st = "begun" /\ workers'[w].j = workers[w].j + 1) =>
                  LET i == workers[w].i
                      j == workers[w].j
                      d == Dist(metric, i, j)
                      h == HeapAt(heap_dis_tab, heap_ids_tab, i)
                      hn == HeapAt(heap_dis_tab', heap_ids_tab', i)
                  IN  IF Better(metric, d, h.val[1])
                      THEN SameBag(Entries(hn), [Entries(h) EXCEPT ![1] = <<d, j>>])
                      ELSE hn = h
    /\ (pc = "blas_j" /\ op = "knn" /\ ngemm' = ngemm + 1) =>
          \A i \in i0..(i1 - 1) :
              LET j1 == Min(j0 + bs_y, ny)
                  h == HeapAt(heap_dis_tab, heap_ids_tab, i)
                  hn == HeapAt(heap_dis_tab', heap_ids_tab', i)
              IN  /\ SameBag(hn.val, AdmitValues(h.val, i, j0, j1))
                  /\ j1 = j0 + 1 =>
                        IF Better(metric, Dist(metric, i, j0), h.val[1])
                        THEN SameBag(Entries(hn),
                                     [Entries(h) EXCEPT ![1] = <<Dist(metric, i, j0), j0>>])
                        ELSE hn = h
                  /\ \A e \in Range(Entries(hn)) :
                        \/ e \in Range(Entries(h))
                        \/ \E j \in j0..(j1 - 1) : e = <<Dist(metric, i, j), j>>

\* C13: after begin(i) and after every add_result (after every add_results
\* call, for the candidates it consumed) the slot holds k entries in heap
\* order and the worker's threshold is the root; a candidate strictly better
\* than the root replaces the root, a candidate equal to the root or worse
\* leaves values and ids as they were
HeapAdmission == [][HeapAdmissionStep /\ HeapAdmissionOK']_vars

\* a worker has admitted a candidate and, later in the row, has turned down
\* one of the same distance
HeapAdmissionWitness ==
    /\ pc = "par" /\ op = "knn" /\ k = 1
    /\ \E w \in Busy :
          LET h == HeapAt(heap_dis_tab, heap_ids_tab, workers[w].i)
          IN  /\ h.ids[1] >= 0
              /\ \E ja \in (h.ids[1] + 1)..(workers[w].j - 1) :
                    Dist(metric, workers[w].i, ja) = h.val[1]

====
